---- MODULE Spec2Model ----
(***************************************************************************)
(* Model of the sigil developer-account service of vivek-344/diagon:       *)
(* the developers table, the repository (SQL statements), the service      *)
(* layer, and the auth handlers (Login, RefreshToken).                     *)
(*                                                                         *)
(* Every storage statement is one atomic step.  A request that makes more  *)
(* than one storage call (Create after hashing, UpdatePassword, Login) is  *)
(* split at the storage calls, so that requests interleave as they do on   *)
(* the connection pool.                                                    *)
(***************************************************************************)
EXTENDS Integers, Sequences, FiniteSets, TLC

VARIABLES
    developers,   \* the developers table: id -> row (DOMAIN = stored ids)
    nextID,       \* next value of uuidv7(): ids are never reused
    nextSalt,     \* next bcrypt salt: every hash gets a new one
    now,          \* the clock (NOW(), time.Now())
    calls,        \* per request slot: the request in flight / its outcome
    resp,         \* the last response of a single-statement operation
    wallet        \* token pairs handed out to clients and still kept

vars == <<developers, nextID, nextSalt, now, calls, resp, wallet>>

-----------------------------------------------------------------------------
(* Bounds *)

MaxAccounts == 2
MaxSalt == 3
MaxTime == 1
MaxHeld == 1

Procs == {"p1", "p2"}

-----------------------------------------------------------------------------
(* domain/developer.go *)

StatusPending == "pending"
StatusActive == "active"
StatusSuspended == "suspended"
StatusDeleted == "deleted"

\* the values the CHECK constraint of the status column admits
Statuses == {StatusPending, StatusActive, StatusSuspended, StatusDeleted}

\* a nil pointer / SQL NULL
NULL == "<nil>"

ErrEmailExists == "email already registered"
ErrInvalidPassword == "invalid password"
ErrInvalidEmail == "invalid email format"
ErrShortPassword == "password should be at least 8 characters long"
ErrWeakPassword == "password should include a letter and a number/symbol"
ErrNotFound == "developer not found"
ErrWrongPassword == "wrong password"
\* an error the service wraps with fmt.Errorf (a storage error)
ErrInternal == "internal error"
OK == "ok"

-----------------------------------------------------------------------------
(* Inputs.  A password is its sequence of characters (code points).        *)

Passw0rd == <<80, 97, 115, 115, 119, 48, 114, 100>>
Secret12 == <<83, 101, 99, 114, 101, 116, 49, 50>>
abc == <<97, 98, 99>>
abcdefgh == <<97, 98, 99, 100, 101, 102, 103, 104>>

EmailA == "a@b.com"
EmailB == "c@d.com"
NotAnEmail == "not-an-email"

-----------------------------------------------------------------------------
(* utils/utils.go *)

\* net/mail.ParseAddress on the candidate addresses of the model
IsValidEmail(email) == email \in {EmailA, EmailB}

IsLetter(ch) == (ch >= 97 /\ ch <= 122) \/ (ch >= 65 /\ ch <= 90)

\* the bytes of a character in a Go string (UTF-8)
UTF8Len(ch) ==
    IF ch < 128 THEN 1 ELSE IF ch < 2048 THEN 2 ELSE IF ch < 65536 THEN 3 ELSE 4

\* len(password): the bytes of the string
RECURSIVE ByteLen(_)
ByteLen(password) ==
    IF password = <<>> THEN 0
    ELSE UTF8Len(Head(password)) + ByteLen(Tail(password))

\* faulty variant: the policy as "a letter and a digit"
IsStrongPasswordLetterDigit(password) ==
    IF ByteLen(password) < 8 THEN ErrShortPassword
    ELSE LET hasLetter == \E i \in 1..Len(password) : IsLetter(password[i])
             hasSymbol == \E i \in 1..Len(password) : password[i] \in 48..57
         IN IF hasLetter /\ hasSymbol THEN OK ELSE ErrWeakPassword

\* faulty variant: the policy without its length test
IsStrongPasswordNoLength(password) ==
    LET hasLetter == \E i \in 1..Len(password) : IsLetter(password[i])
        hasSymbol == \E i \in 1..Len(password) : ~IsLetter(password[i])
    IN IF hasLetter /\ hasSymbol THEN OK ELSE ErrWeakPassword

IsStrongPassword(password) ==
    IF ByteLen(password) < 8 THEN ErrShortPassword
    ELSE LET hasLetter == \E i \in 1..Len(password) : IsLetter(password[i])
             hasSymbol == \E i \in 1..Len(password) : ~IsLetter(password[i])
         IN IF hasLetter /\ hasSymbol THEN OK ELSE ErrWeakPassword

\* the bytes of a character in a Go string (UTF-8)
UTF8(ch) ==
    IF ch < 128 THEN <<ch>>
    ELSE IF ch < 2048 THEN <<192 + (ch \div 64), 128 + (ch % 64)>>
    ELSE IF ch < 65536
    THEN <<224 + (ch \div 4096), 128 + ((ch \div 64) % 64), 128 + (ch % 64)>>
    ELSE <<240 + (ch \div 262144), 128 + ((ch \div 4096) % 64),
           128 + ((ch \div 64) % 64), 128 + (ch % 64)>>

\* []byte(password)
RECURSIVE Bytes(_)
Bytes(password) ==
    IF \A i \in DOMAIN password : password[i] < 128 THEN password
    ELSE UTF8(Head(password)) \o Bytes(Tail(password))

\* the longest password bcrypt operates on, in bytes
BcryptMaxLen == 72

\* the key bcrypt derives from a password: the bytes and a closing zero
\* byte, read cyclically for BcryptMaxLen bytes
KeyByte(password, i) ==
    LET key == Bytes(password) \o <<0>>
    IN key[((i - 1) % Len(key)) + 1]

\* bcrypt.GenerateFromPassword refuses a password of more than BcryptMaxLen
\* bytes (ErrPasswordTooLong)
HashPasswordFails(password) == ByteLen(password) > BcryptMaxLen

\* bcrypt.GenerateFromPassword: the hash embeds a new random salt and is
\* determined by the salt and the key derived from the password; the model
\* writes it as the password and the salt, and CheckPasswordHash compares
\* derived keys.  On an error the empty string is returned.
HashPassword(password, salt) ==
    IF HashPasswordFails(password) THEN <<>>
    ELSE [pw |-> password, salt |-> salt]

\* faulty variant: a comparison that accepts every password
CheckPasswordHashAny(password, hash) == TRUE

\* bcrypt.CompareHashAndPassword: false on a malformed hash
CheckPasswordHash(password, hash) ==
    /\ DOMAIN hash = {"pw", "salt"}
    /\ \/ hash.pw = password
       \/ \A i \in 1..BcryptMaxLen : KeyByte(hash.pw, i) = KeyByte(password, i)

-----------------------------------------------------------------------------
(* The developers table (schema) *)

NullTime == [Valid |-> FALSE, Time |-> 0]
ValidTime(t) == [Valid |-> TRUE, Time |-> t]

\* faulty variant: a new row starts as pending
NewRowPending(id, email, passwordHash, fullName, companyName) ==
    [ id |-> id, email |-> email, passwordHash |-> passwordHash,
      fullName |-> fullName, companyName |-> companyName,
      status |-> StatusPending, emailVerified |-> FALSE, planTier |-> "free",
      createdAt |-> now, updatedAt |-> now, lastLoginAt |-> NullTime,
      metadata |-> <<>> ]

\* faulty variant: a new row carries a login time
NewRowLoggedIn(id, email, passwordHash, fullName, companyName) ==
    [ id |-> id, email |-> email, passwordHash |-> passwordHash,
      fullName |-> fullName, companyName |-> companyName,
      status |-> StatusActive, emailVerified |-> FALSE, planTier |-> "free",
      createdAt |-> now, updatedAt |-> now, lastLoginAt |-> ValidTime(now),
      metadata |-> <<>> ]

\* the row an INSERT of (email, password_hash, full_name, company_name)
\* creates: the other columns take their DEFAULTs
NewRow(id, email, passwordHash, fullName, companyName) ==
    [ id |-> id, email |-> email, passwordHash |-> passwordHash,
      fullName |-> fullName, companyName |-> companyName,
      status |-> StatusActive, emailVerified |-> FALSE, planTier |-> "free",
      createdAt |-> now, updatedAt |-> now, lastLoginAt |-> NullTime,
      metadata |-> <<>> ]

\* faulty variant: uniqueness enforced among the rows that are not deleted only
DuplicateKeyAmongLive(email) ==
    \E id \in DOMAIN developers :
        developers[id].email = email /\ developers[id].status # StatusDeleted

\* faulty variant: no uniqueness constraint on email
NoUniqueConstraint(email) == FALSE

\* email VARCHAR(255) NOT NULL UNIQUE: the constraint spans every row
DuplicateKey(email) == \E id \in DOMAIN developers : developers[id].email = email

\* WHERE id = $1
RowsByID(id) == {i \in DOMAIN developers : i = id}

\* WHERE id = $1 AND status != 'deleted'
LiveRowsByID(id) == {i \in RowsByID(id) : developers[i].status # StatusDeleted}

\* faulty variant: the lookup without its status filter: WHERE id = $1
GetByIDAnyStatus(id) ==
    IF id \notin DOMAIN developers THEN [err |-> ErrNotFound]
    ELSE [err |-> OK, dev |-> developers[id]]

\* developerRepo.GetByID: SELECT ... WHERE id = $1 AND status != 'deleted'
GetByID(id) ==
    LET rows == {i \in DOMAIN developers :
                    i = id /\ developers[i].status # StatusDeleted}
    IN IF rows = {} THEN [err |-> ErrNotFound]
       ELSE [err |-> OK, dev |-> developers[CHOOSE i \in rows : TRUE]]

\* faulty variant: the lookup without its status filter: WHERE email = $1
GetByEmailAnyStatus(email) ==
    LET rows == {i \in DOMAIN developers : developers[i].email = email}
    IN IF rows = {} THEN [err |-> ErrNotFound]
       ELSE [err |-> OK, dev |-> developers[CHOOSE i \in rows : TRUE]]

\* developerRepo.GetByEmail: SELECT ... WHERE email = $1 AND status != 'deleted'
GetByEmail(email) ==
    LET rows == {i \in DOMAIN developers :
                    developers[i].email = email /\ developers[i].status # StatusDeleted}
    IN IF rows = {} THEN [err |-> ErrNotFound]
       ELSE [err |-> OK, dev |-> developers[CHOOSE i \in rows : TRUE]]

\* DeveloperFilter: a nil field is NULL
Filter(status, planTier) == [Status |-> status, PlanTier |-> planTier]

DefaultPageSize == 20

\* faulty variant: without a status filter no WHERE clause on status
GetAllWhereNoDefault(filter, row) ==
    /\ IF filter.Status \in {NULL, StatusDeleted} THEN TRUE
       ELSE row.status = filter.Status
    /\ (filter.PlanTier # NULL /\ filter.PlanTier # "") => row.planTier = filter.PlanTier

\* developerRepo.GetAll: the WHERE clauses built from the filter
GetAllWhere(filter, row) ==
    /\ IF filter.Status = NULL THEN row.status # StatusDeleted
       ELSE IF filter.Status = StatusDeleted THEN TRUE
       ELSE row.status = filter.Status
    /\ (filter.PlanTier # NULL /\ filter.PlanTier # "") => row.planTier = filter.PlanTier

\* ORDER BY created_at DESC: the orders the matching rows can come in; rows
\* created at the same moment come in either order
GetAllOrders(filter) ==
    LET ids == {i \in DOMAIN developers : GetAllWhere(filter, developers[i])}
    IN {o \in [1..Cardinality(ids) -> ids] :
          /\ \A i, j \in DOMAIN o : i # j => o[i] # o[j]
          /\ \A i, j \in DOMAIN o :
                i < j => developers[o[i]].createdAt >= developers[o[j]].createdAt}

\* developerRepo.GetAll: the results the query can give; LIMIT pageSize
\* OFFSET (page-1)*pageSize, and no row at all is ErrNotFound
GetAll(filter, page, pageSize) ==
    LET pg == IF page <= 0 THEN 1 ELSE page
        ps == IF pageSize <= 0 THEN DefaultPageSize ELSE pageSize
        first == (pg - 1) * ps + 1
        Page(o) == [i \in 1..(IF Len(o) < first THEN 0
                              ELSE IF Len(o) < first + ps - 1 THEN Len(o) - first + 1
                              ELSE ps) |-> developers[o[first + i - 1]]]
    IN {IF Len(Page(o)) = 0 THEN [err |-> ErrNotFound]
        ELSE [err |-> OK, devs |-> Page(o)] : o \in GetAllOrders(filter)}

Idle == [pc |-> "idle"]

Init ==
    /\ developers = <<>>
    /\ nextID = 1
    /\ nextSalt = 1
    /\ now = 0
    /\ calls = [p \in Procs |-> Idle]
    /\ resp = [op |-> "none"]
    /\ wallet = {}

Free(p) == calls[p].pc \in {"idle", "done"}

-----------------------------------------------------------------------------
(* Register: DeveloperHandler.Create -> DeveloperService.Create            *)
(*           -> developerRepo.Create                                       *)

\* the service up to the storage call: validation, then hashing
CreateStart(p, input) ==
    /\ Free(p)
    /\ LET email == input.Email
           password == input.Password
       IN
       IF ~IsValidEmail(email)
       THEN /\ calls' = [calls EXCEPT ![p] =
                   [pc |-> "done", op |-> "Create", email |-> email, res |-> ErrInvalidEmail]]
            /\ UNCHANGED nextSalt
       ELSE IF IsStrongPassword(password) # OK
       THEN /\ calls' = [calls EXCEPT ![p] =
                   [pc |-> "done", op |-> "Create", email |-> email,
                    res |-> IsStrongPassword(password)]]
            /\ UNCHANGED nextSalt
       ELSE IF HashPasswordFails(password)
       THEN /\ calls' = [calls EXCEPT ![p] =
                   [pc |-> "done", op |-> "Create", email |-> email, res |-> ErrInternal]]
            /\ UNCHANGED nextSalt
       ELSE /\ nextSalt <= MaxSalt
            /\ calls' = [calls EXCEPT ![p] =
                   [pc |-> "insert", op |-> "Create", email |-> email,
                    fullName |-> input.FullName, companyName |-> input.CompanyName,
                    passwordHash |-> HashPassword(password, nextSalt)]]
            /\ nextSalt' = nextSalt + 1
    /\ UNCHANGED <<developers, nextID, now, resp, wallet>>

\* developerRepo.Create: the INSERT, and the service's mapping of its error
CreateInsert(p) ==
    /\ calls[p].pc = "insert"
    /\ LET c == calls[p] IN
       IF DuplicateKey(c.email)
       THEN /\ calls' = [calls EXCEPT ![p] =
                   [pc |-> "done", op |-> "Create", email |-> c.email, res |-> ErrEmailExists]]
            /\ UNCHANGED <<developers, nextID>>
       ELSE /\ nextID <= MaxAccounts
            /\ developers' = (nextID :> NewRow(nextID, c.email, c.passwordHash, c.fullName, c.companyName))
                                @@ developers
            /\ nextID' = nextID + 1
            /\ calls' = [calls EXCEPT ![p] =
                   [pc |-> "done", op |-> "Create", email |-> c.email, res |-> OK,
                    id |-> nextID]]
    /\ UNCHANGED <<nextSalt, now, resp, wallet>>

-----------------------------------------------------------------------------
(* Single-statement operations of DeveloperService / developerRepo.        *)
(* Each answers through resp.                                              *)

Reply(op, id, res) == [op |-> op, id |-> id, res |-> res]

\* UPDATE ... SET email_verified = true WHERE id = $1 AND status != 'deleted'
VerifyEmail(id) ==
    /\ IF LiveRowsByID(id) = {}
       THEN /\ resp' = Reply("VerifyEmail", id, ErrNotFound)
            /\ UNCHANGED developers
       ELSE /\ developers' = [developers EXCEPT ![id].emailVerified = TRUE]
            /\ resp' = Reply("VerifyEmail", id, OK)
    /\ UNCHANGED <<nextID, nextSalt, now, calls, wallet>>

\* UPDATE ... SET full_name, company_name, status, plan_tier, updated_at
\* WHERE id = $5 RETURNING updated_at.  A nil Status is written as NULL and
\* violates NOT NULL; the statement then fails and changes nothing.
Update(id, input) ==
    /\ IF RowsByID(id) = {}
       THEN /\ resp' = Reply("Update", id, ErrNotFound)
            /\ UNCHANGED developers
       ELSE IF input.Status \notin Statuses
       THEN /\ resp' = Reply("Update", id, ErrInternal)
            /\ UNCHANGED developers
       ELSE /\ developers' = [developers EXCEPT
                   ![id].fullName = input.FullName,
                   ![id].companyName = input.CompanyName,
                   ![id].status = input.Status,
                   ![id].planTier = input.PlanTier,
                   ![id].updatedAt = now]
            /\ resp' = Reply("Update", id, OK)
    /\ UNCHANGED <<nextID, nextSalt, now, calls, wallet>>

\* UPDATE ... SET last_login_at = $1, updated_at = NOW()
\* WHERE id = $2 AND status != 'deleted'
RepoUpdateLastLogin(id, loginTime) ==
    IF LiveRowsByID(id) = {}
    THEN developers
    ELSE [developers EXCEPT ![id].lastLoginAt = ValidTime(loginTime),
                            ![id].updatedAt = now]

UpdateLastLoginResult(id) == IF LiveRowsByID(id) = {} THEN ErrNotFound ELSE OK

UpdateLastLogin(id) ==
    /\ developers' = RepoUpdateLastLogin(id, now)
    /\ resp' = Reply("UpdateLastLogin", id, UpdateLastLoginResult(id))
    /\ UNCHANGED <<nextID, nextSalt, now, calls, wallet>>

\* faulty variant: the overwrite without its status filter: WHERE id = $2
ResetPasswordAnyStatus(id, newPassword) ==
    /\ nextSalt <= MaxSalt
    /\ nextSalt' = nextSalt + 1
    /\ IF RowsByID(id) = {}
       THEN /\ resp' = Reply("ResetPassword", id, ErrNotFound)
            /\ UNCHANGED developers
       ELSE /\ developers' = [developers EXCEPT
                   ![id].passwordHash = HashPassword(newPassword, nextSalt),
                   ![id].updatedAt = now]
            /\ resp' = Reply("ResetPassword", id, OK)
    /\ UNCHANGED <<nextID, now, calls, wallet>>

\* HashPassword, then UPDATE ... SET password_hash = $1, updated_at = NOW()
\* WHERE id = $2 AND status != 'deleted'
ResetPassword(id, newPassword) ==
    /\ nextSalt <= MaxSalt
    /\ nextSalt' = nextSalt + 1
    /\ IF HashPasswordFails(newPassword)
       THEN /\ resp' = Reply("ResetPassword", id, ErrInternal)
            /\ UNCHANGED developers
       ELSE IF LiveRowsByID(id) = {}
       THEN /\ resp' = Reply("ResetPassword", id, ErrNotFound)
            /\ UNCHANGED developers
       ELSE /\ developers' = [developers EXCEPT
                   ![id].passwordHash = HashPassword(newPassword, nextSalt),
                   ![id].updatedAt = now]
            /\ resp' = Reply("ResetPassword", id, OK)
    /\ UNCHANGED <<nextID, now, calls, wallet>>

\* faulty variant: the bag is replaced by the one new entry
MergeReplaces(metadata, key, value) == [k \in {key} |-> value]

\* metadata || jsonb_build_object($1, to_jsonb($2))
Merge(metadata, key, value) ==
    [k \in DOMAIN metadata \cup {key} |-> IF k = key THEN value ELSE metadata[k]]

\* UPDATE ... SET metadata = metadata || ..., updated_at = NOW()
\* WHERE id = $3 AND status != 'deleted'
AddMetadata(id, key, value) ==
    /\ IF LiveRowsByID(id) = {}
       THEN /\ resp' = Reply("AddMetadata", id, ErrNotFound)
            /\ UNCHANGED developers
       ELSE /\ developers' = [developers EXCEPT
                   ![id].metadata = Merge(developers[id].metadata, key, value),
                   ![id].updatedAt = now]
            /\ resp' = Reply("AddMetadata", id, OK)
    /\ UNCHANGED <<nextID, nextSalt, now, calls, wallet>>

\* faulty variant: the row is flagged as deleted and stays stored
DeleteFlagsRow(id) ==
    /\ IF RowsByID(id) = {}
       THEN /\ resp' = Reply("Delete", id, ErrNotFound)
            /\ UNCHANGED developers
       ELSE /\ developers' = [developers EXCEPT ![id].status = StatusDeleted]
            /\ resp' = Reply("Delete", id, OK)
    /\ UNCHANGED <<nextID, nextSalt, now, calls, wallet>>

\* DELETE FROM developers WHERE id = $1
Delete(id) ==
    /\ IF RowsByID(id) = {}
       THEN /\ resp' = Reply("Delete", id, ErrNotFound)
            /\ UNCHANGED developers
       ELSE /\ developers' = [i \in DOMAIN developers \ {id} |-> developers[i]]
            /\ resp' = Reply("Delete", id, OK)
    /\ UNCHANGED <<nextID, nextSalt, now, calls, wallet>>

\* UPDATE ... SET status = 'deleted', updated_at = NOW() WHERE id = $1
SoftDelete(id) ==
    /\ IF RowsByID(id) = {}
       THEN /\ resp' = Reply("SoftDelete", id, ErrNotFound)
            /\ UNCHANGED developers
       ELSE /\ developers' = [developers EXCEPT ![id].status = StatusDeleted,
                                                ![id].updatedAt = now]
            /\ resp' = Reply("SoftDelete", id, OK)
    /\ UNCHANGED <<nextID, nextSalt, now, calls, wallet>>

\* UPDATE ... SET status = 'suspended', updated_at = NOW() WHERE id = $1
Suspend(id) ==
    /\ IF RowsByID(id) = {}
       THEN /\ resp' = Reply("Suspend", id, ErrNotFound)
            /\ UNCHANGED developers
       ELSE /\ developers' = [developers EXCEPT ![id].status = StatusSuspended,
                                                ![id].updatedAt = now]
            /\ resp' = Reply("Suspend", id, OK)
    /\ UNCHANGED <<nextID, nextSalt, now, calls, wallet>>

-----------------------------------------------------------------------------
(* ChangePassword: DeveloperService.UpdatePassword                         *)

\* GetByID, the local verification of oldPassword, HashPassword(newPassword)
UpdatePasswordRead(p, id, oldPassword, newPassword) ==
    /\ Free(p)
    /\ IF GetByID(id).err # OK
       THEN /\ calls' = [calls EXCEPT ![p] =
                   [pc |-> "done", op |-> "UpdatePassword", id |-> id, res |-> ErrNotFound]]
            /\ UNCHANGED nextSalt
       ELSE IF ~CheckPasswordHash(oldPassword, GetByID(id).dev.passwordHash)
       THEN /\ calls' = [calls EXCEPT ![p] =
                   [pc |-> "done", op |-> "UpdatePassword", id |-> id,
                    res |-> ErrInvalidPassword]]
            /\ UNCHANGED nextSalt
       ELSE IF HashPasswordFails(newPassword)
       THEN /\ calls' = [calls EXCEPT ![p] =
                   [pc |-> "done", op |-> "UpdatePassword", id |-> id, res |-> ErrInternal]]
            /\ UNCHANGED nextSalt
       ELSE /\ nextSalt <= MaxSalt
            /\ calls' = [calls EXCEPT ![p] =
                   [pc |-> "cas", op |-> "UpdatePassword", id |-> id,
                    oldHash |-> GetByID(id).dev.passwordHash,
                    newHash |-> HashPassword(newPassword, nextSalt)]]
            /\ nextSalt' = nextSalt + 1
    /\ UNCHANGED <<developers, nextID, now, resp, wallet>>

\* faulty variant: the write without the comparison: WHERE id = $3 AND status != 'deleted'
CASRowsNoCompare(id, oldPasswordHash) == LiveRowsByID(id)

\* WHERE password_hash = $2 AND id = $3 AND status != 'deleted'
CASRows(id, oldPasswordHash) ==
    {i \in LiveRowsByID(id) : developers[i].passwordHash = oldPasswordHash}

\* developerRepo.UpdatePassword: RowsAffected() == 0 is ErrWrongPassword
RepoUpdatePasswordResult(id, oldPasswordHash) ==
    IF CASRows(id, oldPasswordHash) = {} THEN ErrWrongPassword ELSE OK

\* developerRepo.UpdatePassword: the conditional UPDATE
UpdatePasswordCAS(p) ==
    /\ calls[p].pc = "cas"
    /\ LET c == calls[p]
           res == RepoUpdatePasswordResult(c.id, c.oldHash)
       IN /\ developers' =
                IF res = OK
                THEN [developers EXCEPT ![c.id].passwordHash = c.newHash,
                                        ![c.id].updatedAt = now]
                ELSE developers
          /\ calls' = [calls EXCEPT ![p] =
                [pc |-> "done", op |-> "UpdatePassword", id |-> c.id,
                 oldHash |-> c.oldHash, newHash |-> c.newHash, res |-> res]]
    /\ UNCHANGED <<nextID, nextSalt, now, resp, wallet>>

-----------------------------------------------------------------------------
(* Token service (utils.GenerateTokenPair, utils.ValidateToken)            *)

JWTSecret == "secret"
AccessTTL == 1
RefreshTTL == 2

ErrExpiredToken == "token has expired"
ErrInvalidToken == "invalid token"

Token(id, email, kind, ttl) ==
    [DeveloperID |-> id, Email |-> email, kind |-> kind,
     iat |-> now, exp |-> now + ttl, key |-> JWTSecret]

GenerateTokenPair(id, email) ==
    [AccessToken |-> Token(id, email, "access", AccessTTL),
     RefreshToken |-> Token(id, email, "refresh", RefreshTTL)]

\* faulty variant: expiry first, then signature
ValidateTokenExpiryFirst(token) ==
    IF now >= token.exp THEN ErrExpiredToken
    ELSE IF token.key # JWTSecret THEN ErrInvalidToken
    ELSE OK

\* signature first, then expiry
ValidateToken(token) ==
    IF token.key # JWTSecret THEN ErrInvalidToken
    ELSE IF now >= token.exp THEN ErrExpiredToken
    ELSE OK

\* the client keeps a pair it was handed while it has room for it
Keep(pair) == IF Cardinality(wallet) < MaxHeld THEN wallet \cup {pair} ELSE wallet

-----------------------------------------------------------------------------
(* AuthHandler.Login *)

InvalidCredentials == "invalid credentials"
AccountSuspended == "account suspended"
DeveloperNotFound == "developer not found (401)"
RefreshTokenExpired == "refresh token expired"
InvalidRefreshToken == "invalid refresh token"

\* faulty variant: the login without its test of a suspended account
LoginReadNoSuspension(p, email, password) ==
    /\ Free(p)
    /\ LET got == GetByEmail(email)
           fail(res) == [pc |-> "done", op |-> "Login", email |-> email,
                         password |-> password, res |-> res]
       IN IF got.err # OK
          THEN calls' = [calls EXCEPT ![p] = fail(InvalidCredentials)]
          ELSE LET dev == got.dev IN
               IF ~CheckPasswordHash(password, dev.passwordHash)
               THEN calls' = [calls EXCEPT ![p] = fail(InvalidCredentials) @@ [dev |-> dev]]
               ELSE calls' = [calls EXCEPT ![p] =
                        [pc |-> "lastlogin", op |-> "Login", email |-> email,
                         password |-> password, dev |-> dev,
                         tokens |-> GenerateTokenPair(dev.id, dev.email)]]
    /\ UNCHANGED <<developers, nextID, nextSalt, now, resp, wallet>>

\* GetByEmail, the status check, the password check, GenerateTokenPair
LoginRead(p, email, password) ==
    /\ Free(p)
    /\ LET got == GetByEmail(email)
           fail(res) == [pc |-> "done", op |-> "Login", email |-> email,
                         password |-> password, res |-> res]
       IN IF got.err # OK
          THEN calls' = [calls EXCEPT ![p] = fail(InvalidCredentials)]
          ELSE LET dev == got.dev IN
               IF dev.status = StatusSuspended
               THEN calls' = [calls EXCEPT ![p] = fail(AccountSuspended) @@ [dev |-> dev]]
               ELSE IF ~CheckPasswordHash(password, dev.passwordHash)
               THEN calls' = [calls EXCEPT ![p] = fail(InvalidCredentials) @@ [dev |-> dev]]
               ELSE calls' = [calls EXCEPT ![p] =
                        [pc |-> "lastlogin", op |-> "Login", email |-> email,
                         password |-> password, dev |-> dev,
                         tokens |-> GenerateTokenPair(dev.id, dev.email)]]
    /\ UNCHANGED <<developers, nextID, nextSalt, now, resp, wallet>>

\* faulty variant: a failed last-login write fails the Login
LoginFinishPropagates(p) ==
    /\ calls[p].pc = "lastlogin"
    /\ LET c == calls[p] IN
       IF UpdateLastLoginResult(c.dev.id) # OK
       THEN /\ calls' = [calls EXCEPT ![p] =
                   [pc |-> "done", op |-> "Login", email |-> c.email,
                    password |-> c.password, dev |-> c.dev, res |-> ErrInternal]]
            /\ UNCHANGED <<developers, wallet>>
       ELSE /\ developers' = RepoUpdateLastLogin(c.dev.id, now)
            /\ calls' = [calls EXCEPT ![p] =
                   [pc |-> "done", op |-> "Login", email |-> c.email,
                    password |-> c.password, dev |-> c.dev, res |-> OK,
                    tokens |-> c.tokens]]
            /\ wallet' = Keep(c.tokens)
    /\ UNCHANGED <<nextID, nextSalt, now, resp>>

\* UpdateLastLogin (its error is only logged), then the 200 response
LoginFinish(p) ==
    /\ calls[p].pc = "lastlogin"
    /\ LET c == calls[p] IN
       /\ developers' = RepoUpdateLastLogin(c.dev.id, now)
       /\ calls' = [calls EXCEPT ![p] =
             [pc |-> "done", op |-> "Login", email |-> c.email, password |-> c.password,
              dev |-> c.dev, res |-> OK, tokens |-> c.tokens]]
       /\ wallet' = Keep(c.tokens)
    /\ UNCHANGED <<nextID, nextSalt, now, resp>>

-----------------------------------------------------------------------------
(* AuthHandler.RefreshToken *)

\* faulty variant: a successful refresh is recorded as a login
RefreshTokenRecordsLogin(token) ==
    /\ LET v == ValidateToken(token)
           reply(res) == [op |-> "RefreshToken", token |-> token, res |-> res]
       IN IF v = ErrExpiredToken
          THEN resp' = reply(RefreshTokenExpired) /\ UNCHANGED <<wallet, developers>>
          ELSE IF v # OK
          THEN resp' = reply(InvalidRefreshToken) /\ UNCHANGED <<wallet, developers>>
          ELSE IF GetByID(token.DeveloperID).err # OK
          THEN resp' = reply(DeveloperNotFound) /\ UNCHANGED <<wallet, developers>>
          ELSE LET dev == GetByID(token.DeveloperID).dev IN
               IF dev.status = StatusSuspended
               THEN resp' = reply(AccountSuspended) /\ UNCHANGED <<wallet, developers>>
               ELSE /\ resp' = reply(OK) @@
                          [tokens |-> GenerateTokenPair(dev.id, dev.email)]
                    /\ wallet' = Keep(GenerateTokenPair(dev.id, dev.email))
                    /\ developers' = RepoUpdateLastLogin(dev.id, now)
    /\ UNCHANGED <<nextID, nextSalt, now, calls>>

RefreshToken(token) ==
    /\ LET v == ValidateToken(token)
           reply(res) == [op |-> "RefreshToken", token |-> token, res |-> res]
       IN IF v = ErrExpiredToken
          THEN resp' = reply(RefreshTokenExpired) /\ UNCHANGED wallet
          ELSE IF v # OK
          THEN resp' = reply(InvalidRefreshToken) /\ UNCHANGED wallet
          ELSE IF GetByID(token.DeveloperID).err # OK
          THEN resp' = reply(DeveloperNotFound) /\ UNCHANGED wallet
          ELSE LET dev == GetByID(token.DeveloperID).dev IN
               IF dev.status = StatusSuspended
               THEN resp' = reply(AccountSuspended) /\ UNCHANGED wallet
               ELSE /\ resp' = reply(OK) @@
                          [tokens |-> GenerateTokenPair(dev.id, dev.email)]
                    /\ wallet' = Keep(GenerateTokenPair(dev.id, dev.email))
    /\ UNCHANGED <<developers, nextID, nextSalt, now, calls>>

\* the tokens a client can present: those it was handed, and forgeries of them
Presentable ==
    LET held == UNION {{t.AccessToken, t.RefreshToken} : t \in wallet}
    IN held \cup {[t EXCEPT !.key = "forged"] : t \in held}

-----------------------------------------------------------------------------
(* middleware.AuthMiddleware in front of AuthHandler.GetProfile *)

Unauthorized == "unauthorized"
MissingHeader == "missing authorization header"
InvalidHeaderFormat == "invalid authorization header format"
TokenHasExpired == "token has expired"
InvalidToken == "invalid token"
ProfileNotFound == "developer not found (404)"

\* the claims ValidateToken returns for a token it accepts
TokenClaims(token) == [DeveloperID |-> token.DeveloperID, Email |-> token.Email]

\* an Authorization header, as the parts strings.Split(authHeader, " ")
\* yields; <<>> stands for the empty header
Headers ==
    {<<>>, <<"Bearer">>}
        \cup {<<"Bearer", t>> : t \in Presentable}
        \cup {<<"Basic", t>> : t \in Presentable}

\* faulty variant: the row is sent as it was read
GetProfileSendsRow(ctx) ==
    IF GetByID(ctx.DeveloperID).err # OK
    THEN [error |-> ProfileNotFound]
    ELSE [data |-> GetByID(ctx.DeveloperID).dev]

\* AuthHandler.GetProfile: the handler behind the middleware
\* (the empty string is the empty sequence)
GetProfile(ctx) ==
    IF GetByID(ctx.DeveloperID).err # OK
    THEN [error |-> ProfileNotFound]
    ELSE [data |-> [GetByID(ctx.DeveloperID).dev EXCEPT !.passwordHash = <<>>]]

\* DeveloperHandler.Create: the body answered to a finished registration
createResponse(c) ==
    IF c.res = OK THEN [data |-> [ID |-> c.id, Email |-> c.email]]
    ELSE [error |-> c.res]

\* AuthHandler.Login: the body answered to a finished login
loginResponse(c) ==
    IF c.res = OK
    THEN [data |-> [AccessToken |-> c.tokens.AccessToken,
                    RefreshToken |-> c.tokens.RefreshToken,
                    Developer |-> [ID |-> c.dev.id, Email |-> c.dev.email]]]
    ELSE [error |-> c.res]

\* AuthHandler.RefreshToken: the body answered to a refresh
refreshResponse(r) ==
    IF r.res = OK
    THEN [data |-> [AccessToken |-> r.tokens.AccessToken,
                    RefreshToken |-> r.tokens.RefreshToken]]
    ELSE [error |-> r.res]

\* faulty variant: an expired token is let through
AuthMiddlewareNoExpiry(header) ==
    IF header = <<>>
    THEN [res |-> Unauthorized, error |-> MissingHeader]
    ELSE IF Len(header) # 2 \/ header[1] # "Bearer"
    THEN [res |-> Unauthorized, error |-> InvalidHeaderFormat]
    ELSE IF ValidateToken(header[2]) \notin {OK, ErrExpiredToken}
    THEN [res |-> Unauthorized, error |-> InvalidToken]
    ELSE [res |-> OK, ctx |-> TokenClaims(header[2]),
          next |-> GetProfile(TokenClaims(header[2]))]

\* faulty variant: the account is looked up and must be active
AuthMiddlewareChecksAccount(header) ==
    IF header = <<>>
    THEN [res |-> Unauthorized, error |-> MissingHeader]
    ELSE IF Len(header) # 2 \/ header[1] # "Bearer"
    THEN [res |-> Unauthorized, error |-> InvalidHeaderFormat]
    ELSE IF ValidateToken(header[2]) = ErrExpiredToken
    THEN [res |-> Unauthorized, error |-> TokenHasExpired]
    ELSE IF ValidateToken(header[2]) # OK
    THEN [res |-> Unauthorized, error |-> InvalidToken]
    ELSE IF GetByID(header[2].DeveloperID).err # OK
    THEN [res |-> Unauthorized, error |-> InvalidToken]
    ELSE IF GetByID(header[2].DeveloperID).dev.status # StatusActive
    THEN [res |-> Unauthorized, error |-> InvalidToken]
    ELSE [res |-> OK, ctx |-> TokenClaims(header[2]),
          next |-> GetProfile(TokenClaims(header[2]))]

\* what the middleware does with a request: the 401 it answers, or the
\* context it builds and the downstream handler's response
AuthMiddlewareResult(header) ==
    IF header = <<>>
    THEN [res |-> Unauthorized, error |-> MissingHeader]
    ELSE IF Len(header) # 2 \/ header[1] # "Bearer"
    THEN [res |-> Unauthorized, error |-> InvalidHeaderFormat]
    ELSE IF ValidateToken(header[2]) = ErrExpiredToken
    THEN [res |-> Unauthorized, error |-> TokenHasExpired]
    ELSE IF ValidateToken(header[2]) # OK
    THEN [res |-> Unauthorized, error |-> InvalidToken]
    ELSE [res |-> OK, ctx |-> TokenClaims(header[2]),
          next |-> GetProfile(TokenClaims(header[2]))]

\* a request to the protected route
AuthMiddleware(header) ==
    /\ resp' = [op |-> "AuthMiddleware", header |-> header] @@ AuthMiddlewareResult(header)
    /\ UNCHANGED <<developers, nextID, nextSalt, now, calls, wallet>>

Tick ==
    /\ now < MaxTime
    /\ now' = now + 1
    /\ UNCHANGED <<developers, nextID, nextSalt, calls, resp, wallet>>

-----------------------------------------------------------------------------

Ids == 1..MaxAccounts

\* createRequest: the optional names are left out
CreateInput(email, password) ==
    [Email |-> email, Password |-> password, FullName |-> NULL, CompanyName |-> NULL]

\* UpdateDeveloperInput
UpdateInput(status) ==
    [FullName |-> NULL, CompanyName |-> NULL, Status |-> status, PlanTier |-> "free"]

\* the Register inputs tried against the store: two addresses, and a
\* password that is too short
RegisterInputs ==
    {CreateInput(EmailA, Passw0rd), CreateInput(EmailB, Passw0rd), CreateInput(EmailA, abc)}

(* The account store and its status operations *)
NextStore ==
    \/ \E p \in Procs, input \in RegisterInputs : CreateStart(p, input)
    \/ \E p \in Procs : CreateInsert(p)
    \/ \E id \in Ids, st \in {StatusActive, StatusDeleted, NULL} :
          Update(id, UpdateInput(st))
    \/ \E id \in Ids : Suspend(id)
    \/ \E id \in Ids : SoftDelete(id)
    \/ \E id \in Ids : Delete(id)

SpecStore == Init /\ [][NextStore]_vars

(* Password changes racing with each other and with the account's removal *)
NextPassword ==
    \/ \E p \in Procs : CreateStart(p, CreateInput(EmailA, Passw0rd))
    \/ \E p \in Procs : CreateInsert(p)
    \/ \E p \in Procs, id \in Ids, old \in {Passw0rd, Secret12} :
          UpdatePasswordRead(p, id, old, Secret12)
    \/ \E p \in Procs : UpdatePasswordCAS(p)
    \/ \E id \in Ids : ResetPassword(id, Passw0rd)
    \/ \E id \in Ids : Suspend(id)
    \/ \E id \in Ids : SoftDelete(id)
    \/ \E id \in Ids : Delete(id)

SpecPassword == Init /\ [][NextPassword]_vars

(* Authentication and session renewal against a changing account status *)
NextAuth ==
    \/ CreateStart("p1", CreateInput(EmailA, Passw0rd))
    \/ CreateInsert("p1")
    \/ \E pw \in {Passw0rd, Secret12} : LoginRead("p1", EmailA, pw)
    \/ LoginFinish("p1")
    \/ \E t \in Presentable : RefreshToken(t)
    \/ \E id \in Ids : Suspend(id)
    \/ \E id \in Ids : SoftDelete(id)
    \/ \E id \in Ids : Delete(id)

SpecAuth == Init /\ [][NextAuth]_vars

\* Register inputs against the policy: a malformed address, a password that
\* is too short, one that is long enough but all letters, and a good one
PolicyInputs ==
    {CreateInput(e, pw) : e \in {EmailA, NotAnEmail}, pw \in {Passw0rd, abc, abcdefgh}}

(* Registration with good and bad inputs, and the first login after it     *)
NextRegister ==
    \/ \E p \in Procs, input \in PolicyInputs : CreateStart(p, input)
    \/ \E p \in Procs : CreateInsert(p)
    \/ \E p \in Procs : LoginRead(p, EmailA, Passw0rd)
    \/ \E p \in Procs : LoginFinish(p)
    \/ \E id \in DOMAIN developers : Delete(id)

SpecRegister == Init /\ [][NextRegister]_vars

(* Requests to the protected route with every kind of Authorization        *)
(* header, while time passes                                               *)
NextSession ==
    \/ CreateStart("p1", CreateInput(EmailA, Passw0rd))
    \/ CreateInsert("p1")
    \/ LoginRead("p1", EmailA, Passw0rd)
    \/ LoginFinish("p1")
    \/ \E h \in Headers : AuthMiddleware(h)
    \/ \E id \in Ids : Delete(id)
    \/ Tick

SpecSession == Init /\ [][NextSession]_vars

\* the access tokens a client holds
HeldAccess == {pair.AccessToken : pair \in wallet}

\* the refresh tokens a client holds
HeldRefresh == {pair.RefreshToken : pair \in wallet}

(* Access tokens presented while the account they were issued for changes  *)
NextStateless ==
    \/ CreateStart("p1", CreateInput(EmailA, Passw0rd))
    \/ CreateInsert("p1")
    \/ LoginRead("p1", EmailA, Passw0rd)
    \/ LoginFinish("p1")
    \/ \E t \in HeldAccess : AuthMiddleware(<<"Bearer", t>>)
    \/ \E id \in DOMAIN developers : Suspend(id)
    \/ \E id \in DOMAIN developers : SoftDelete(id)
    \/ \E id \in DOMAIN developers : Delete(id)
    \/ \E id \in DOMAIN developers : ResetPassword(id, Secret12)
    \/ \E id \in DOMAIN developers : UpdatePasswordRead("p1", id, Passw0rd, Secret12)
    \/ UpdatePasswordCAS("p1")
    \/ Tick

SpecStateless == Init /\ [][NextStateless]_vars

(* Tokens of either kind presented at either entry point, again and       *)
(* again, while time passes                                                *)
NextRefresh ==
    \/ CreateStart("p1", CreateInput(EmailA, Passw0rd))
    \/ CreateInsert("p1")
    \/ LoginRead("p1", EmailA, Passw0rd)
    \/ LoginFinish("p1")
    \/ \E t \in HeldRefresh \cup HeldAccess : RefreshToken(t)
    \/ \E t \in HeldRefresh \cup HeldAccess : AuthMiddleware(<<"Bearer", t>>)
    \/ \E id \in Ids : Suspend(id)
    \/ Tick

SpecRefresh == Init /\ [][NextRefresh]_vars

(* Every operation that names an id, before and after the id's row is      *)
(* removed                                                                 *)
NextRemoval ==
    \/ CreateStart("p1", CreateInput(EmailA, Passw0rd))
    \/ CreateInsert("p1")
    \/ LoginRead("p1", EmailA, Passw0rd)
    \/ LoginFinish("p1")
    \/ \E t \in HeldRefresh : RefreshToken(t)
    \/ \E id \in Ids : UpdatePasswordRead("p1", id, Passw0rd, Secret12)
    \/ UpdatePasswordCAS("p1")
    \/ \E id \in Ids : ResetPassword(id, Secret12)
    \/ \E id \in Ids : AddMetadata(id, "k", "v")
    \/ \E id \in Ids : Suspend(id)
    \/ \E id \in Ids : SoftDelete(id)
    \/ \E id \in Ids : Delete(id)

SpecRemoval == Init /\ [][NextRemoval]_vars

(* Every operation that writes to an account's row, while time passes     *)
NextTimestamps ==
    \/ CreateStart("p1", CreateInput(EmailA, Passw0rd))
    \/ CreateInsert("p1")
    \/ \E id \in DOMAIN developers : VerifyEmail(id)
    \/ \E id \in DOMAIN developers : Update(id, UpdateInput(StatusActive))
    \/ \E id \in DOMAIN developers : UpdateLastLogin(id)
    \/ \E id \in DOMAIN developers : AddMetadata(id, "k", "v")
    \/ \E id \in DOMAIN developers : ResetPassword(id, Secret12)
    \/ \E id \in DOMAIN developers : UpdatePasswordRead("p1", id, Passw0rd, Secret12)
    \/ UpdatePasswordCAS("p1")
    \/ \E id \in DOMAIN developers : Suspend(id)
    \/ \E id \in DOMAIN developers : SoftDelete(id)
    \/ Tick

SpecTimestamps == Init /\ [][NextTimestamps]_vars

(* Logins that succeed and fail, among the other operations on the account *)
NextLogin ==
    \/ CreateStart("p1", CreateInput(EmailA, Passw0rd))
    \/ CreateInsert("p1")
    \/ \E pw \in {Passw0rd, Secret12} : LoginRead("p1", EmailA, pw)
    \/ LoginFinish("p1")
    \/ \E t \in HeldRefresh : RefreshToken(t)
    \/ \E id \in DOMAIN developers : VerifyEmail(id)
    \/ \E id \in DOMAIN developers : Update(id, UpdateInput(StatusActive))
    \/ \E id \in DOMAIN developers : AddMetadata(id, "k", "v")
    \/ \E id \in DOMAIN developers : ResetPassword(id, Secret12)
    \/ \E id \in DOMAIN developers : UpdatePasswordRead("p1", id, Passw0rd, Secret12)
    \/ UpdatePasswordCAS("p1")
    \/ \E id \in DOMAIN developers : Suspend(id)
    \/ \E id \in DOMAIN developers : SoftDelete(id)
    \/ \E id \in DOMAIN developers : Delete(id)

SpecLogin == Init /\ [][NextLogin]_vars

(* Metadata writes with several keys and values                            *)
NextMetadata ==
    \/ \E e \in {EmailA, EmailB} : CreateStart("p1", CreateInput(e, Passw0rd))
    \/ CreateInsert("p1")
    \/ \E id \in Ids, key \in {"k", "j"}, value \in {"v", "w"} : AddMetadata(id, key, value)
    \/ \E id \in Ids : SoftDelete(id)

SpecMetadata == Init /\ [][NextMetadata]_vars

(* IsStrongPassword applied to every password over a small alphabet: a    *)
(* letter, a digit and a letter outside ASCII (two bytes)                  *)
MaxLen == 8

PolicyAlphabet == {97, 49, 233}

Passwords == UNION {[1..n -> PolicyAlphabet] : n \in 0..MaxLen}

InitStrength ==
    /\ developers = <<>>
    /\ nextID = 1
    /\ nextSalt = 1
    /\ now = 0
    /\ calls = [p \in Procs |-> Idle]
    /\ resp \in {[op |-> "password", password |-> pw] : pw \in Passwords}
    /\ wallet = {}

ValidatePasswordStrength ==
    /\ resp.op = "password"
    /\ resp' = [op |-> "IsStrongPassword", password |-> resp.password,
                res |-> IsStrongPassword(resp.password)]
    /\ UNCHANGED <<developers, nextID, nextSalt, now, calls, wallet>>

SpecStrength == InitStrength /\ [][ValidatePasswordStrength]_vars

(* HashPassword and CheckPasswordHash applied to every pair of plaintexts  *)
(* of a set with short and long passwords, one of them with characters     *)
(* outside ASCII and one with a zero byte                                  *)
Long72 == [i \in 1..BcryptMaxLen |-> IF i % 2 = 1 THEN 97 ELSE 49]

Long73 == Long72 \o <<120>>

Repeated == Passw0rd \o <<0>> \o Passw0rd

Plaintexts ==
    {<<>>, abc, Passw0rd, Secret12, <<233, 233, 233, 233, 49>>, Repeated, Long72, Long73}

\* hashes bcrypt cannot read: the empty string, a hash cut short
MalformedHashes == {<<>>, [pw |-> Passw0rd]}

InitHash ==
    /\ developers = <<>>
    /\ nextID = 1
    /\ nextSalt = 1
    /\ now = 0
    /\ calls = [p \in Procs |-> Idle]
    /\ resp \in {[op |-> "plaintexts", p |-> p, q |-> q, hashes |-> <<>>] :
                    p \in Plaintexts, q \in Plaintexts}
    /\ wallet = {}

\* HashPassword(p), a first and a second time
HashPlaintext ==
    /\ resp.op = "plaintexts"
    /\ Len(resp.hashes) < 2
    /\ nextSalt <= MaxSalt
    /\ resp' = [resp EXCEPT !.hashes = Append(@, HashPassword(resp.p, nextSalt))]
    /\ nextSalt' = nextSalt + 1
    /\ UNCHANGED <<developers, nextID, now, calls, wallet>>

\* CheckPasswordHash of p, of q and of p against a malformed hash
VerifyPlaintexts ==
    /\ resp.op = "plaintexts"
    /\ Len(resp.hashes) = 2
    /\ resp' = [op |-> "CheckPasswordHash", p |-> resp.p, q |-> resp.q,
                hashes |-> resp.hashes,
                same |-> CheckPasswordHash(resp.p, resp.hashes[1]),
                other |-> CheckPasswordHash(resp.q, resp.hashes[1]),
                malformed |-> {CheckPasswordHash(resp.p, h) : h \in MalformedHashes}]
    /\ UNCHANGED <<developers, nextID, nextSalt, now, calls, wallet>>

NextHash == HashPlaintext \/ VerifyPlaintexts

SpecHash == InitHash /\ [][NextHash]_vars

(* ChangePassword by one caller and Login by another, with a password     *)
(* that bcrypt does not tell apart from Passw0rd                           *)
NextChange ==
    \/ \E pw \in {Passw0rd, Repeated} : CreateStart("p1", CreateInput(EmailA, pw))
    \/ CreateInsert("p1")
    \/ \E id \in DOMAIN developers, old \in {Passw0rd, Repeated},
          new \in {Passw0rd, Secret12} : UpdatePasswordRead("p1", id, old, new)
    \/ UpdatePasswordCAS("p1")
    \/ \E id \in DOMAIN developers : ResetPassword(id, Passw0rd)
    \/ \E pw \in {Passw0rd, Secret12, Repeated} : LoginRead("p2", EmailA, pw)
    \/ LoginFinish("p2")
    \/ \E id \in DOMAIN developers : Suspend(id)
    \/ \E id \in DOMAIN developers : SoftDelete(id)

SpecChange == Init /\ [][NextChange]_vars

(* Every operation that sets a password hash, with passwords that keep    *)
(* the policy and passwords that break it                                  *)
NextSetPassword ==
    \/ \E e \in {EmailA, EmailB}, pw \in {Passw0rd, abc, abcdefgh, Long73} :
          CreateStart("p1", CreateInput(e, pw))
    \/ CreateInsert("p1")
    \/ \E id \in DOMAIN developers, new \in {Secret12, abc, abcdefgh, Long73} :
          UpdatePasswordRead("p1", id, Passw0rd, new)
    \/ UpdatePasswordCAS("p1")
    \/ \E id \in DOMAIN developers, new \in {Secret12, abc, abcdefgh, Long73} :
          ResetPassword(id, new)

SpecSetPassword == Init /\ [][NextSetPassword]_vars

(* The lookups, over accounts created at different moments and removed    *)
(* logically or physically                                                 *)
NextLookup ==
    \/ \E e \in {EmailA, EmailB} : CreateStart("p1", CreateInput(e, Passw0rd))
    \/ CreateInsert("p1")
    \/ \E id \in DOMAIN developers, st \in {StatusActive, StatusDeleted} :
          Update(id, UpdateInput(st))
    \/ \E id \in DOMAIN developers : Suspend(id)
    \/ \E id \in DOMAIN developers : SoftDelete(id)
    \/ \E id \in DOMAIN developers : Delete(id)
    \/ Tick

SpecLookup == Init /\ [][NextLookup]_vars

Next ==
    \/ \E p \in Procs, e \in {EmailA, NotAnEmail}, pw \in {Passw0rd, abc, abcdefgh} :
          CreateStart(p, CreateInput(e, pw))
    \/ \E p \in Procs : CreateInsert(p)
    \/ \E id \in Ids : VerifyEmail(id)
    \/ \E id \in Ids, st \in {StatusActive, NULL} : Update(id, UpdateInput(st))
    \/ \E id \in Ids : UpdateLastLogin(id)
    \/ \E id \in Ids : ResetPassword(id, Secret12)
    \/ \E id \in Ids : AddMetadata(id, "k", "v")
    \/ \E id \in Ids : Delete(id)
    \/ \E id \in Ids : SoftDelete(id)
    \/ \E id \in Ids : Suspend(id)
    \/ \E p \in Procs, id \in Ids : UpdatePasswordRead(p, id, Passw0rd, Secret12)
    \/ \E p \in Procs : UpdatePasswordCAS(p)
    \/ \E p \in Procs : LoginRead(p, EmailA, Passw0rd)
    \/ \E p \in Procs : LoginFinish(p)
    \/ \E t \in Presentable : RefreshToken(t)
    \/ \E h \in Headers : AuthMiddleware(h)
    \/ Tick

Spec == Init /\ [][Next]_vars

-----------------------------------------------------------------------------
(* Properties *)

\* a ChangePassword call that got as far as the conditional write
Wrote(p) ==
    /\ calls[p].pc = "done"
    /\ calls[p].op = "UpdatePassword"
    /\ "oldHash" \in DOMAIN calls[p]

\* two calls that read and verified the same stored hash of the same account
SameRead(p, q) ==
    /\ p # q
    /\ calls[p].id = calls[q].id
    /\ calls[p].oldHash = calls[q].oldHash

C1_NeverBoth ==
    \A p, q \in Procs :
        (Wrote(p) /\ Wrote(q) /\ SameRead(p, q) /\ calls[p].res = OK)
            => calls[q].res = ErrWrongPassword

\* the write of call p: it succeeds iff the account is still stored, not
\* deleted and holds the hash p read; it then stores p's new hash, and a
\* failed write changes nothing
C1_Write(p) ==
    LET c == calls[p]
        intact == /\ c.id \in DOMAIN developers
                  /\ developers[c.id].status # StatusDeleted
                  /\ developers[c.id].passwordHash = c.oldHash
    IN UpdatePasswordCAS(p) =>
          IF intact
          THEN /\ calls'[p].res = OK
               /\ developers'[c.id].passwordHash = c.newHash
               /\ \A q \in Procs \ {p} :
                     (calls[q].pc = "cas" /\ calls[q].id = c.id /\ calls[q].oldHash = c.oldHash)
                        => developers'[c.id].passwordHash # calls[q].oldHash
          ELSE /\ calls'[p].res = ErrWrongPassword
               /\ developers' = developers

\* C1: of two concurrent ChangePassword calls that read and verified the
\* same stored hash, the first to write succeeds and stores its hash, the
\* other then fails with ErrWrongPassword and overwrites nothing; the two
\* never both succeed.
C1_ConcurrentChangePassword ==
    /\ []C1_NeverBoth
    /\ [][\A p \in Procs : C1_Write(p)]_vars

\* both calls read the same hash, one won and the other lost, and the
\* stored hash is the winner's
C1_Witness ==
    \E p, q \in Procs :
        /\ Wrote(p) /\ Wrote(q) /\ SameRead(p, q)
        /\ calls[p].res = OK
        /\ calls[q].res = ErrWrongPassword
        /\ calls[p].id \in DOMAIN developers
        /\ developers[calls[p].id].passwordHash = calls[p].newHash

\* C10: the conditional password write fails with ErrNotFound when no
\* non-deleted account with that id is stored, and with ErrWrongPassword
\* only when the account is stored, not deleted, and holds another hash.
C10_CASDistinguishesFailures ==
    [][\A p \in Procs :
          UpdatePasswordCAS(p) =>
             LET c == calls[p] IN
             /\ LiveRowsByID(c.id) = {} => calls'[p].res = ErrNotFound
             /\ calls'[p].res = ErrWrongPassword =>
                   /\ LiveRowsByID(c.id) # {}
                   /\ developers[c.id].passwordHash # c.oldHash]_vars

-----------------------------------------------------------------------------

\* a Login that has answered
LoggedIn(p) == calls[p].pc = "done" /\ calls[p].op = "Login"

\* C2: a Login whose password does not match gets the generic
\* invalid-credentials answer, as a Login for an email without account
\* does; the account-suspended answer is given only for the correct
\* password of a suspended account.
C2_SuspensionOnlyAfterPassword ==
    \A p \in Procs :
        LoggedIn(p) =>
            LET c == calls[p] IN
            /\ ("dev" \notin DOMAIN c) => c.res = InvalidCredentials
            /\ ("dev" \in DOMAIN c /\ ~CheckPasswordHash(c.password, c.dev.passwordHash))
                   => c.res = InvalidCredentials
            /\ c.res = AccountSuspended =>
                   /\ c.dev.status = StatusSuspended
                   /\ CheckPasswordHash(c.password, c.dev.passwordHash)

\* C3: RefreshToken with a correctly signed, unexpired token answers with
\* an error and hands out no token pair when the account is suspended,
\* soft-deleted or no longer stored at the time of the call.
C3_RefreshRechecksStatus ==
    [][\A t \in Presentable :
          (/\ RefreshToken(t)
           /\ ValidateToken(t) = OK
           /\ \/ t.DeveloperID \notin DOMAIN developers
              \/ developers[t.DeveloperID].status \in {StatusSuspended, StatusDeleted})
          => /\ resp'.res \in {AccountSuspended, DeveloperNotFound}
             /\ "tokens" \notin DOMAIN resp'
             /\ wallet' = wallet]_vars

\* a valid token of an account that was active at Login was refused
\* because the account is now suspended, soft-deleted or removed
C3_Witness ==
    /\ resp.op = "RefreshToken"
    /\ ValidateToken(resp.token) = OK
    /\ resp.res \in {AccountSuspended, DeveloperNotFound}
    /\ \/ resp.token.DeveloperID \notin DOMAIN developers
       \/ developers[resp.token.DeveloperID].status \in {StatusSuspended, StatusDeleted}

\* the rows holding this email, deleted ones included
RowsByEmail(email) == {i \in DOMAIN developers : developers[i].email = email}

C4_NoPairForIneligible ==
    \A p \in Procs :
        (calls[p].pc \in {"lastlogin", "done"} /\ calls[p].op = "Login") =>
            LET c == calls[p] IN
            /\ "tokens" \in DOMAIN c =>
                   c.dev.status \notin {StatusSuspended, StatusDeleted}
            /\ (/\ "dev" \in DOMAIN c
                /\ c.dev.status = StatusSuspended
                /\ CheckPasswordHash(c.password, c.dev.passwordHash))
                   => calls[p].pc = "done" /\ c.res = AccountSuspended

C4_DeletedIsUnknown(p) ==
    \A pw \in {Passw0rd, Secret12}, e \in {EmailA, EmailB} :
        (/\ LoginRead(p, e, pw)
         /\ RowsByEmail(e) # {}
         /\ \A i \in RowsByEmail(e) : developers[i].status = StatusDeleted)
        => /\ calls'[p].pc = "done"
           /\ calls'[p].res = InvalidCredentials

\* C4: Login hands out no token pair for an account it read as suspended
\* or soft-deleted: with the correct password, a suspended account gets
\* the account-suspended answer, a soft-deleted one the generic
\* invalid-credentials answer.
C4_LoginGatedByStatus ==
    /\ []C4_NoPairForIneligible
    /\ [][\A p \in Procs : C4_DeletedIsUnknown(p)]_vars

\* a Login with the correct password of a suspended account was refused
\* as suspended
C4_Witness ==
    \E p \in Procs :
        /\ LoggedIn(p)
        /\ "dev" \in DOMAIN calls[p]
        /\ calls[p].dev.status = StatusSuspended
        /\ CheckPasswordHash(calls[p].password, calls[p].dev.passwordHash)
        /\ calls[p].res = AccountSuspended
        /\ developers[calls[p].dev.id].status = StatusSuspended

-----------------------------------------------------------------------------

\* rows that are not soft-deleted and hold this email
LiveRowsByEmail(email) ==
    {i \in RowsByEmail(email) : developers[i].status # StatusDeleted}

\* C5: a Register (valid email, policy-compliant password) whose email is
\* held only by soft-deleted accounts succeeds and creates an account.
C5_SoftDeleteFreesEmail ==
    [][\A p \in Procs :
          (/\ CreateInsert(p)
           /\ RowsByEmail(calls[p].email) # {}
           /\ LiveRowsByEmail(calls[p].email) = {})
          => /\ calls'[p].res = OK
             /\ calls'[p].id \in DOMAIN developers' \ DOMAIN developers]_vars

\* C6: no two stored accounts whose status is not deleted have the same
\* email.
C6_EmailUniqueAmongLive ==
    \A i, j \in DOMAIN developers :
        (/\ i # j
         /\ developers[i].status # StatusDeleted
         /\ developers[j].status # StatusDeleted)
        => developers[i].email # developers[j].email

\* two accounts that are not deleted are stored, one of them brought back
\* from deleted by Suspend or Update
C6_Witness ==
    /\ \E i, j \in DOMAIN developers :
          /\ i # j
          /\ developers[i].status # StatusDeleted
          /\ developers[j].status # StatusDeleted
          /\ developers[i].status # StatusActive
    /\ \E p \in Procs :
          /\ calls[p].pc = "done" /\ calls[p].op = "Create"
          /\ calls[p].res = ErrEmailExists

\* this step ends a Register of p: in CreateStart by a validation error,
\* or in CreateInsert
RegisterEnds(p) ==
    /\ calls'[p] # calls[p]
    /\ calls'[p].pc = "done"
    /\ calls'[p].op = "Create"

C8_StatusOneDirectional ==
    [][\A id \in DOMAIN developers :
          (/\ developers[id].status \in {StatusSuspended, StatusDeleted}
           /\ id \in DOMAIN developers')
          => developers'[id].status # StatusActive]_vars

\* C9: Suspend and SoftDelete of an account that is already deleted, or of
\* an id that is not stored, fail with ErrNotFound and change nothing.
C9_SoftOpsSkipDeleted ==
    [][\A id \in Ids :
          ((Suspend(id) \/ SoftDelete(id)) /\ LiveRowsByID(id) = {})
          => /\ resp'.res = ErrNotFound
             /\ developers' = developers]_vars

\* the first part of ChangePassword(id, old, _) by call p: a missing or
\* deleted account ends the call with ErrNotFound, a stored hash that was not
\* made from old ends it with ErrInvalidPassword; either way the call is over
\* before the conditional write and no row has changed
C11_Read(p, id, old) ==
    UpdatePasswordRead(p, id, old, Secret12) =>
        IF id \notin DOMAIN developers \/ developers[id].status = StatusDeleted
        THEN /\ calls'[p].pc = "done"
             /\ calls'[p].res = ErrNotFound
             /\ developers' = developers
        ELSE developers[id].passwordHash.pw # old
             => /\ calls'[p].pc = "done"
                /\ calls'[p].res = ErrInvalidPassword
                /\ developers' = developers

\* C11: ChangePassword with an oldPassword that does not verify against the
\* stored hash fails with ErrInvalidPassword, writes nothing and leaves the
\* stored hash as it was; for an account that is missing or soft-deleted it
\* fails with ErrNotFound.
C11_WrongOldPasswordRejected ==
    [][\A p \in Procs :
          (calls'[p] # calls[p] /\ calls'[p].op = "UpdatePassword") =>
             \A id \in Ids, old \in {Passw0rd, Secret12} : C11_Read(p, id, old)]_vars

\* one call was refused for its old password on a stored account, and another
\* was refused because that account has since been soft-deleted
C11_Witness ==
    \E p, q \in Procs :
        /\ calls[p].pc = "done" /\ calls[p].op = "UpdatePassword"
        /\ calls[p].res = ErrInvalidPassword
        /\ calls[p].id \in DOMAIN developers
        /\ calls[q].pc = "done" /\ calls[q].op = "UpdatePassword"
        /\ calls[q].res = ErrNotFound
        /\ calls[q].id \in DOMAIN developers
        /\ developers[calls[q].id].status = StatusDeleted

\* the step is a request to the protected route
MiddlewareAnswers == resp' # resp /\ resp'.op = "AuthMiddleware"

\* a request with Authorization header h: the downstream handler runs iff h
\* is "Bearer <token>" with a token ValidateToken accepts, and then the
\* context holds the token's DeveloperID and Email and nothing else;
\* otherwise the answer is unauthorized and nothing ran downstream
C12_Gate(h) ==
    IF Len(h) = 2 /\ h[1] = "Bearer" /\ ValidateToken(h[2]) = OK
    THEN /\ resp'.res = OK
         /\ "next" \in DOMAIN resp'
         /\ resp'.ctx = [DeveloperID |-> h[2].DeveloperID, Email |-> h[2].Email]
    ELSE /\ resp'.res = Unauthorized
         /\ "next" \notin DOMAIN resp'
         /\ "ctx" \notin DOMAIN resp'

\* C12: Session Middleware is a gate: the downstream handler runs only for a
\* bearer token that Validate accepts, with exactly the claims' accountID and
\* email in the context; a missing header, a malformed header, an expired
\* token and an invalid token are answered unauthorized and the downstream
\* handler does not run.
C12_MiddlewareIsGate == [][MiddlewareAnswers => C12_Gate(resp'.header)]_vars

\* a request was let through and the handler behind the gate served the
\* profile of the account named in the context
C12_Witness ==
    /\ resp.op = "AuthMiddleware"
    /\ resp.res = OK
    /\ "data" \in DOMAIN resp.next
    /\ resp.next.data.id = resp.ctx.DeveloperID
    /\ resp.next.data.email = resp.ctx.Email

\* the pair a Login issued for account dev, validated at the present moment:
\* within AccessTTL of its issue the access token is accepted and its claims
\* are dev's id and email; from then on it is expired; a copy of it signed
\* with another key is invalid at every moment
C13_Issued(c) ==
    LET t == c.tokens.AccessToken
        forged == [t EXCEPT !.key = "forged"]
    IN /\ now < t.iat + AccessTTL
            => /\ ValidateToken(t) = OK
               /\ TokenClaims(t) = [DeveloperID |-> c.dev.id, Email |-> c.dev.email]
       /\ now >= t.iat + AccessTTL => ValidateToken(t) = ErrExpiredToken
       /\ ValidateToken(forged) = ErrInvalidToken

\* C13: Validate of an issued access token before its expiry returns the
\* issued accountID and email; once its lifetime has elapsed Validate of the
\* same correctly signed token fails as expired, never as invalid; a token
\* whose signature does not verify fails as invalid whether or not it is
\* expired.
C13_ValidateKinds ==
    \A p \in Procs :
        (calls[p].pc # "idle" /\ calls[p].op = "Login" /\ "tokens" \in DOMAIN calls[p])
            => C13_Issued(calls[p])

\* the lifetime of an issued access token has elapsed and the middleware
\* has answered a request carrying it with "token has expired"
C13_Witness ==
    \E p \in Procs :
        /\ calls[p].pc = "done" /\ calls[p].op = "Login" /\ calls[p].res = OK
        /\ now >= calls[p].tokens.AccessToken.exp
        /\ resp.op = "AuthMiddleware"
        /\ resp.res = Unauthorized
        /\ resp.error = TokenHasExpired
        /\ resp.header[2] = calls[p].tokens.AccessToken

\* the step is an answer of the refresh end point
RefreshAnswers == resp' # resp /\ resp'.op = "RefreshToken"

\* C14: token kinds are not interchangeable: the middleware does not admit a
\* request whose bearer token is a refresh token, and RefreshSession does not
\* issue a pair when it is given an access token.
C14_KindsNotInterchangeable ==
    [][/\ (MiddlewareAnswers /\ resp'.header[2].kind = "refresh")
            => resp'.res = Unauthorized
       /\ (RefreshAnswers /\ resp'.token.kind = "access")
            => resp'.res # OK]_vars

\* C15: tokens are stateless: a correctly signed access token is admitted by
\* the middleware at every moment before its expiry, whatever has happened to
\* its account since it was issued (Suspend, SoftDelete, HardDelete,
\* ChangePassword, ResetPassword); no operation revokes an issued token.
C15_TokensStateless ==
    \A t \in HeldAccess :
        (t.key = JWTSecret /\ now < t.iat + AccessTTL)
            => AuthMiddlewareResult(<<"Bearer", t>>).res = OK

\* a request with an unexpired access token has just been admitted although
\* the account it was issued for has been removed
C15_Witness ==
    /\ resp.op = "AuthMiddleware"
    /\ resp.res = OK
    /\ resp.header[2] \in HeldAccess
    /\ now < resp.header[2].exp
    /\ resp.ctx.DeveloperID \notin DOMAIN developers
    /\ resp.next = [error |-> ProfileNotFound]

\* token is redeemable: it is correctly signed and unexpired and its account
\* is stored, not deleted and not suspended
Redeemable(token) ==
    /\ token.key = JWTSecret
    /\ now < token.exp
    /\ token.DeveloperID \in DOMAIN developers
    /\ developers[token.DeveloperID].status \notin {StatusDeleted, StatusSuspended}

\* C16: RefreshSession does not invalidate the refresh token it consumed:
\* whenever the token is unexpired and its account eligible the refresh
\* succeeds, however often it was redeemed before, and issues a pair made at
\* that moment for the account; afterwards the token is still redeemable, and
\* no refresh, successful or not, changes a stored account.
C16_RefreshKeepsToken ==
    [][RefreshAnswers =>
          /\ developers' = developers
          /\ \A t \in HeldRefresh :
                (resp'.token = t /\ Redeemable(t))
                => /\ resp'.res = OK
                   /\ resp'.tokens.RefreshToken.iat = now
                   /\ resp'.tokens.AccessToken.iat = now
                   /\ TokenClaims(resp'.tokens.RefreshToken)
                         = [DeveloperID |-> t.DeveloperID,
                            Email |-> developers[t.DeveloperID].email]
                   /\ Redeemable(t)']_vars

\* a held refresh token issued earlier has been redeemed now: the pair it
\* yielded is a new one, not the pair the token came with, and the token has
\* not expired
C16_Witness ==
    /\ resp.op = "RefreshToken"
    /\ resp.res = OK
    /\ resp.token \in HeldRefresh
    /\ resp.token.iat < now
    /\ now < resp.token.exp
    /\ resp.tokens.RefreshToken # resp.token
    /\ resp.tokens \notin wallet

\* the call of p ended in the service with error err: the store was not
\* called (nothing was hashed, no INSERT is pending) and no account changed
RejectedByPolicy(p, err) ==
    /\ calls'[p].pc = "done"
    /\ calls'[p].res = err
    /\ nextSalt' = nextSalt
    /\ developers' = developers
    /\ nextID' = nextID

\* Register(input) by call p, up to the storage call
C17_Start(p, input) ==
    LET pw == input.Password
        letters == {i \in 1..Len(pw) : IsLetter(pw[i])}
    IN CreateStart(p, input) =>
          IF input.Email = NotAnEmail THEN RejectedByPolicy(p, ErrInvalidEmail)
          ELSE IF Len(pw) < 8 THEN RejectedByPolicy(p, ErrShortPassword)
          ELSE IF letters = {} \/ letters = 1..Len(pw)
          THEN RejectedByPolicy(p, ErrWeakPassword)
          ELSE calls'[p].pc = "insert"

\* C17: Register checks policy before touching storage: a malformed email
\* fails with ErrInvalidEmail, otherwise a password shorter than 8 with
\* ErrShortPassword, otherwise a weak password with ErrWeakPassword; in each
\* case the store is not called and the set of accounts is unchanged.
C17_PolicyBeforeStorage ==
    [][\A p \in Procs, input \in PolicyInputs : C17_Start(p, input)]_vars

\* one Register was refused for its email and another for its weak password,
\* and no account has been stored
C17_Witness ==
    \E p, q \in Procs :
        /\ calls[p].pc = "done" /\ calls[p].op = "Create"
        /\ calls[p].res = ErrInvalidEmail
        /\ calls[q].pc = "done" /\ calls[q].op = "Create"
        /\ calls[q].res = ErrWeakPassword
        /\ developers = <<>>
        /\ nextID = 1

\* the INSERT of call p succeeded
C18_Insert(p) ==
    LET c == calls[p]
        id == calls'[p].id
    IN (CreateInsert(p) /\ calls'[p].res = OK) =>
          /\ \A i \in DOMAIN developers : i < id
          /\ id >= nextID /\ nextID' > id
          /\ DOMAIN developers' = DOMAIN developers \cup {id}
          /\ \A i \in DOMAIN developers : developers'[i] = developers[i]
          /\ developers'[id].id = id
          /\ developers'[id].email = c.email
          /\ developers'[id].status = StatusActive
          /\ developers'[id].emailVerified = FALSE
          /\ developers'[id].lastLoginAt.Valid = FALSE
          /\ calls'[p].email = c.email
          /\ GetByEmail(c.email)' = [err |-> OK, dev |-> developers'[id]]
          /\ developers'[id].status # StatusSuspended
          /\ CheckPasswordHash(c.passwordHash.pw, developers'[id].passwordHash)

\* C18: a successful Register creates exactly one account, with an id never
\* used before, the given email, status active, emailVerified false and
\* lastLoginAt unset, and returns that id and email; the account needs no
\* activation: Login finds it by its email, it is not suspended and its hash
\* verifies the registered password.
C18_RegisterCreatesActive == [][\A p \in Procs : C18_Insert(p)]_vars

\* an account was registered and a Login with its email and password
\* succeeded for it
C18_Witness ==
    \E p, q \in Procs :
        /\ calls[p].pc = "done" /\ calls[p].op = "Create" /\ calls[p].res = OK
        /\ calls[q].pc = "done" /\ calls[q].op = "Login" /\ calls[q].res = OK
        /\ calls[q].dev.id = calls[p].id
        /\ calls[q].email = calls[p].email
        /\ calls[q].tokens.AccessToken.DeveloperID = calls[p].id

\* ResetPassword(id, Passw0rd): on a stored account that is not deleted it
\* succeeds whatever hash is stored, and the hash it stores verifies the new
\* password and differs from the hash any ChangePassword in flight has read;
\* otherwise it fails with ErrNotFound and no row changes
C19_Reset(id) ==
    ResetPassword(id, Passw0rd) =>
        IF id \in DOMAIN developers /\ developers[id].status # StatusDeleted
        THEN /\ resp'.res = OK
             /\ CheckPasswordHash(Passw0rd, developers'[id].passwordHash)
             /\ \A p \in Procs :
                   (calls[p].pc = "cas" /\ calls[p].id = id)
                      => developers'[id].passwordHash # calls[p].oldHash
        ELSE /\ resp'.res = ErrNotFound
             /\ developers' = developers

\* the write of a ChangePassword whose verified hash is no longer the stored
\* one: it fails with ErrWrongPassword and no row changes
C19_StaleWrite(p) ==
    (/\ UpdatePasswordCAS(p)
     /\ calls[p].id \in DOMAIN developers
     /\ developers[calls[p].id].passwordHash # calls[p].oldHash)
        => /\ calls'[p].res = ErrWrongPassword
           /\ developers' = developers

\* C19: ResetPassword is an unconditional overwrite: for any non-deleted
\* account it succeeds whatever the stored hash and the stored hash then
\* verifies the new password; for a missing or soft-deleted account it fails
\* with ErrNotFound and changes nothing.  A ChangePassword that verified the
\* pre-reset hash and writes after the reset fails with ErrWrongPassword and
\* does not undo the reset.
C19_ResetOverwrites ==
    [][/\ \A id \in Ids : C19_Reset(id)
       /\ \A p \in Procs : C19_StaleWrite(p)]_vars

\* a ChangePassword read the hash, the password was reset, and the
\* ChangePassword's write then failed: the stored hash is the reset's
C19_Witness ==
    \E p \in Procs :
        /\ Wrote(p)
        /\ calls[p].res = ErrWrongPassword
        /\ resp = Reply("ResetPassword", calls[p].id, OK)
        /\ calls[p].id \in DOMAIN developers
        /\ developers[calls[p].id].status # StatusDeleted
        /\ CheckPasswordHash(Passw0rd, developers[calls[p].id].passwordHash)
        /\ developers[calls[p].id].passwordHash \notin {calls[p].oldHash, calls[p].newHash}

\* id was given to an account whose row has since been removed: ids are
\* handed out in increasing order and only Delete takes a row away
Removed(id) == id < nextID /\ id \notin DOMAIN developers

\* HardDelete(id): with a row it succeeds and the row is gone, found neither
\* by its id nor by its email; without one it fails with ErrNotFound
C20_Delete(id) ==
    Delete(id) =>
        IF id \in DOMAIN developers
        THEN /\ resp'.res = OK
             /\ Removed(id)'
             /\ GetByID(id)'.err = ErrNotFound
             /\ GetByEmail(developers[id].email)'.err = ErrNotFound
        ELSE /\ resp'.res = ErrNotFound
             /\ developers' = developers

\* once removed, id stays removed, no lookup returns a row with that id, and
\* every operation then started on it ends with the not-found answer and
\* changes no row
C20_After(id) ==
    Removed(id) =>
        /\ Removed(id)'
        /\ GetByID(id).err = ErrNotFound
        /\ \A e \in {EmailA, EmailB} :
              GetByEmail(e).err = OK => GetByEmail(e).dev.id # id
        /\ (\/ Suspend(id) \/ SoftDelete(id) \/ Delete(id)
            \/ ResetPassword(id, Secret12) \/ AddMetadata(id, "k", "v"))
              => (resp'.res = ErrNotFound /\ developers' = developers)
        /\ \A p \in Procs :
              UpdatePasswordRead(p, id, Passw0rd, Secret12)
                 => (calls'[p].pc = "done" /\ calls'[p].res = ErrNotFound)
        /\ (RefreshAnswers /\ resp'.token.DeveloperID = id)
              => (resp'.res = DeveloperNotFound /\ developers' = developers)

\* C20: HardDelete removes the account's row for good: afterwards every
\* lookup by id or by email and every later Suspend, SoftDelete, HardDelete,
\* ChangePassword, ResetPassword, MergeMetadata and Refresh on that id fails
\* with the not-found kind, and no operation makes an account with that id
\* exist again; HardDelete of an id with no row fails with ErrNotFound.
C20_HardDeleteIrreversible ==
    [][\A id \in Ids : C20_Delete(id) /\ C20_After(id)]_vars

\* an account was removed; a ChangePassword started on its id afterwards
\* ended with ErrNotFound and a refresh with its token was refused as
\* "developer not found"
C20_Witness ==
    \E id \in Ids, p \in Procs :
        /\ Removed(id)
        /\ calls[p].pc = "done" /\ calls[p].op = "UpdatePassword"
        /\ calls[p].id = id /\ calls[p].res = ErrNotFound
        /\ resp.op = "RefreshToken"
        /\ resp.token.DeveloperID = id
        /\ resp.res = DeveloperNotFound

\* C21: an account's createdAt and updatedAt never decrease, and every
\* successful mutating operation on the account (VerifyEmail, ChangePassword,
\* ResetPassword, Update, UpdateLastLogin, MergeMetadata, Suspend,
\* SoftDelete) sets updatedAt to the time of the operation: a step that
\* changes a stored row leaves its updatedAt at the present moment.
C21_TimestampsAdvance ==
    [][\A id \in DOMAIN developers \cap DOMAIN developers' :
          /\ developers'[id].createdAt >= developers[id].createdAt
          /\ developers'[id].updatedAt >= developers[id].updatedAt
          /\ developers'[id] # developers[id] => developers'[id].updatedAt = now]_vars

\* C22: lastLoginAt is set only on successful authentication: the only step
\* that changes a stored account's lastLoginAt is the end of a Login that
\* verified the password of that account, which sets it to the present
\* moment; failed Logins, Refresh, Register and all other operations leave it
\* alone, and a new account starts with lastLoginAt unset.
C22_LastLoginOnlyByLogin ==
    [][/\ \A id \in DOMAIN developers \cap DOMAIN developers' :
             developers'[id].lastLoginAt # developers[id].lastLoginAt
             => /\ \E p \in Procs :
                      /\ LoginFinish(p)
                      /\ calls[p].dev.id = id
                      /\ calls'[p].res = OK
                /\ developers'[id].lastLoginAt = ValidTime(now)
       /\ \A id \in DOMAIN developers' \ DOMAIN developers :
             developers'[id].lastLoginAt = NullTime]_vars

\* an account has a login time from a successful Login, and a later Login
\* to it with a wrong password has failed
C22_Witness ==
    \E p \in Procs :
        /\ calls[p].pc = "done" /\ calls[p].op = "Login"
        /\ calls[p].res = InvalidCredentials
        /\ "dev" \in DOMAIN calls[p]
        /\ calls[p].dev.id \in DOMAIN developers
        /\ developers[calls[p].dev.id].lastLoginAt.Valid

\* the end of a Login that verified the password: whether or not the
\* last-login write finds a row, the Login succeeds with the pair made for
\* it; a write that finds no row changes nothing
C23_Finish(p) ==
    LoginFinish(p) =>
        /\ calls'[p].pc = "done"
        /\ calls'[p].res = OK
        /\ calls'[p].tokens = calls[p].tokens
        /\ UpdateLastLoginResult(calls[p].dev.id) # OK => developers' = developers

\* C23: recording the login time is best-effort: when Login has verified the
\* password and the lastLoginAt write fails (the account was deleted in
\* between), Login still succeeds and returns the token pair.
C23_LastLoginBestEffort == [][\A p \in Procs : C23_Finish(p)]_vars

\* a Login succeeded with its pair for an account that was soft-deleted
\* before the login time could be written: the row has no login time
C23_Witness ==
    \E p \in Procs :
        /\ calls[p].pc = "done" /\ calls[p].op = "Login" /\ calls[p].res = OK
        /\ calls[p].tokens \in wallet
        /\ calls[p].dev.id \in DOMAIN developers
        /\ developers[calls[p].dev.id].status = StatusDeleted
        /\ developers[calls[p].dev.id].lastLoginAt = NullTime

\* MergeMetadata(id, key, value): on a stored account that is not deleted it
\* succeeds, key then maps to value, the other keys keep their values, and
\* of the row only metadata and updatedAt differ; otherwise it fails with
\* ErrNotFound; no other row changes either way
C24_Merge(id, key, value) ==
    AddMetadata(id, key, value) =>
        IF id \in DOMAIN developers /\ developers[id].status # StatusDeleted
        THEN LET old == developers[id]
                 new == developers'[id]
             IN /\ resp'.res = OK
                /\ DOMAIN developers' = DOMAIN developers
                /\ DOMAIN new.metadata = DOMAIN old.metadata \cup {key}
                /\ new.metadata[key] = value
                /\ \A k \in DOMAIN old.metadata \ {key} : new.metadata[k] = old.metadata[k]
                /\ [new EXCEPT !.metadata = old.metadata, !.updatedAt = old.updatedAt] = old
                /\ \A i \in DOMAIN developers \ {id} : developers'[i] = developers[i]
        ELSE /\ resp'.res = ErrNotFound
             /\ developers' = developers

\* C24: MergeMetadata(id, key, value) is an additive merge: after it
\* succeeds the metadata maps key to value, every other key keeps its value,
\* and no field but metadata and updatedAt changes; for a missing or
\* soft-deleted account it fails with ErrNotFound and changes nothing.
C24_MetadataMerge ==
    [][resp'.op = "AddMetadata" =>
          \A key \in {"k", "j"}, value \in {"v", "w"} :
              C24_Merge(resp'.id, key, value)]_vars

\* a merge has just succeeded on an account whose bag holds both keys with
\* different values: the earlier entry survived the later write
C24_Witness ==
    \E id \in DOMAIN developers :
        /\ resp = Reply("AddMetadata", id, OK)
        /\ DOMAIN developers[id].metadata = {"k", "j"}
        /\ developers[id].metadata["k"] # developers[id].metadata["j"]

\* the pages and page sizes asked of GetAll: 0 stands for "not given"
Pages == 0..2

\* C25: lookups exclude logically deleted rows: GetByID, GetByEmail and
\* GetAll without a status filter never return an account whose status is
\* deleted, and fail with ErrNotFound when the only matching rows are deleted.
C25_LookupsExcludeDeleted ==
    /\ \A id \in Ids :
          /\ GetByID(id).err = OK => GetByID(id).dev.status # StatusDeleted
          /\ (id \in DOMAIN developers /\ developers[id].status = StatusDeleted)
                => GetByID(id) = [err |-> ErrNotFound]
    /\ \A e \in {EmailA, EmailB} :
          /\ GetByEmail(e).err = OK => GetByEmail(e).dev.status # StatusDeleted
          /\ (\A i \in DOMAIN developers :
                 developers[i].email = e => developers[i].status = StatusDeleted)
                => GetByEmail(e) = [err |-> ErrNotFound]
    /\ \A page \in Pages, pageSize \in Pages :
          \A r \in GetAll(Filter(NULL, NULL), page, pageSize) :
             /\ r.err = OK =>
                   \A i \in DOMAIN r.devs : r.devs[i].status # StatusDeleted
             /\ (\A i \in DOMAIN developers : developers[i].status = StatusDeleted)
                   => r = [err |-> ErrNotFound]

\* two accounts are stored, one of them deleted: the unfiltered listing
\* returns the other one alone, and the deleted one is not found by its id
C25_Witness ==
    \E i, j \in DOMAIN developers :
        /\ developers[i].status = StatusDeleted
        /\ developers[j].status # StatusDeleted
        /\ GetByID(i).err = ErrNotFound
        /\ GetAll(Filter(NULL, NULL), 0, 0) = {[err |-> OK, devs |-> <<developers[j]>>]}

\* the password hashes the store holds
StoredHashes == {developers[i].passwordHash : i \in DOMAIN developers}

\* a JSON object carries a stored hash in its password hash field
CarriesHash(object) ==
    "passwordHash" \in DOMAIN object /\ object.passwordHash \in StoredHashes

\* a response body discloses a stored hash: in the object it answers, in an
\* object nested in it, or in the claims of a token it hands out
Discloses(body) ==
    /\ "data" \in DOMAIN body
    /\ \/ CarriesHash(body.data)
       \/ \E f \in DOMAIN body.data \cap {"Developer", "AccessToken", "RefreshToken"} :
             CarriesHash(body.data[f])

\* C26: the stored password hash is never transmitted outward: no response
\* of Register, Login, RefreshToken or GetProfile contains it, and GetProfile
\* answers the row with the field blanked.
C26_HashNeverSent ==
    /\ \A p \in Procs :
          /\ (calls[p].pc = "done" /\ calls[p].op = "Create")
                => ~Discloses(createResponse(calls[p]))
          /\ (calls[p].pc = "done" /\ calls[p].op = "Login")
                => ~Discloses(loginResponse(calls[p]))
    /\ resp.op = "RefreshToken" => ~Discloses(refreshResponse(resp))
    /\ (resp.op = "AuthMiddleware" /\ resp.res = OK) =>
          /\ ~Discloses(resp.next)
          /\ "data" \in DOMAIN resp.next => resp.next.data.passwordHash = <<>>

\* the profile of a stored account was answered after a successful login
\* with a token of that login, and the row behind it still holds its hash
C26_Witness ==
    /\ resp.op = "AuthMiddleware" /\ resp.res = OK
    /\ "data" \in DOMAIN resp.next
    /\ resp.next.data.id \in DOMAIN developers
    /\ developers[resp.next.data.id].passwordHash # <<>>
    /\ calls["p1"].pc = "done" /\ calls["p1"].op = "Login" /\ calls["p1"].res = OK
    /\ wallet # {}

\* the alphabetic characters of the policy: the letters A-Z and a-z
Letters == (65..90) \cup (97..122)

Chars(password) == {password[i] : i \in DOMAIN password}

C28_HashVerifyRoundTrip ==
    resp.op = "CheckPasswordHash" =>
        /\ resp.same
        /\ resp.q # resp.p => ~resp.other
        /\ resp.hashes[1] # resp.hashes[2]
        /\ resp.malformed = {FALSE}

\* the last successful ChangePassword of caller p is the last write of the
\* account's password: the hash it wrote is the stored one
C29_Changed(p) ==
    /\ calls[p].pc = "done" /\ calls[p].op = "UpdatePassword" /\ calls[p].res = OK
    /\ calls[p].id \in DOMAIN developers
    /\ developers[calls[p].id].passwordHash = calls[p].newHash

\* a login with the password is let through: the account is found, is not
\* suspended and the password verifies
Authenticates(email, password) ==
    /\ GetByEmail(email).err = OK
    /\ GetByEmail(email).dev.status # StatusSuspended
    /\ CheckPasswordHash(password, GetByEmail(email).dev.passwordHash)

\* C29: after a ChangePassword(id, old, new) succeeds, and until the next
\* successful ChangePassword or ResetPassword on that account, Login with
\* the account's email and new succeeds and Login with old (when old
\* differs from new) fails with invalid credentials; a failed ChangePassword
\* leaves the set of passwords that authenticate unchanged.
C29_LoginFollowsChange ==
    [][/\ (/\ C29_Changed("p1")
           /\ calls["p2"].pc \in {"idle", "done"}
           /\ calls'["p2"] # calls["p2"]
           /\ calls'["p2"].email = developers[calls["p1"].id].email) =>
              /\ calls'["p2"].password = calls["p1"].newHash.pw
                    => calls'["p2"].pc = "lastlogin"
              /\ (/\ calls'["p2"].password = calls["p1"].oldHash.pw
                  /\ calls["p1"].oldHash.pw # calls["p1"].newHash.pw)
                    => (calls'["p2"].pc = "done" /\ calls'["p2"].res = InvalidCredentials)
       /\ (/\ calls'["p1"] # calls["p1"]
           /\ calls'["p1"].pc = "done" /\ calls'["p1"].op = "UpdatePassword"
           /\ calls'["p1"].res # OK) =>
              \A pw \in {Passw0rd, Secret12, Repeated} :
                 Authenticates(EmailA, pw)' <=> Authenticates(EmailA, pw)
      ]_vars

\* C30: in every reachable state the password that an account's stored
\* hash verifies satisfies the password-strength policy (length at least 8,
\* a letter and a non-letter): Register, ChangePassword and ResetPassword
\* reject a new password that violates the policy.
C30_StoredPasswordsStrong ==
    \A id \in DOMAIN developers :
        \A pw \in {Passw0rd, Secret12, abc, abcdefgh} :
            CheckPasswordHash(pw, developers[id].passwordHash)
                => IsStrongPassword(pw) = OK

\* C31 as stated: under any interleaving of a Login with a Suspend or
\* SoftDelete of the same account, Login returns a token pair only if the
\* account's stored status is neither suspended nor deleted at the moment
\* the pair is returned.
C31_NoPairAfterStatusChange ==
    [][\A p \in Procs :
          (/\ calls[p].pc = "lastlogin"
           /\ calls'[p].pc = "done" /\ calls'[p].res = OK
           /\ calls[p].dev.id \in DOMAIN developers') =>
              developers'[calls[p].dev.id].status \notin {StatusSuspended, StatusDeleted}
      ]_vars

\* C31 as amended: Login issues a token pair only if the account's stored
\* status was neither suspended nor deleted at the moment Login read the
\* account, and the pair is for that account; a status change that commits
\* after the read does not prevent the pair from being returned.
C31_PairFollowsStatusRead ==
    [][\A p \in Procs :
          /\ (/\ calls'[p] # calls[p]
              /\ calls'[p].op = "Login" /\ calls'[p].pc = "lastlogin") =>
                 \E id \in DOMAIN developers :
                    /\ developers[id].email = calls'[p].email
                    /\ developers[id].status \notin {StatusSuspended, StatusDeleted}
                    /\ calls'[p].tokens.AccessToken.DeveloperID = id
                    /\ calls'[p].tokens.RefreshToken.DeveloperID = id
          /\ (calls[p].pc = "lastlogin" /\ calls'[p] # calls[p]) =>
                 /\ calls'[p].pc = "done" /\ calls'[p].res = OK
                 /\ calls'[p].tokens = calls[p].tokens
      ]_vars

\* a Login has read the account and issued its pair, and the account has
\* been suspended before the Login returns
C31_Witness ==
    \E p \in Procs :
        /\ calls[p].pc = "lastlogin"
        /\ calls[p].dev.status = StatusActive
        /\ calls[p].dev.id \in DOMAIN developers
        /\ developers[calls[p].dev.id].status = StatusSuspended

\* C32: GetAll with a status filter s returns only accounts whose status
\* equals s, for each of pending, active, suspended and deleted (and, when a
\* plan-tier filter is also given, only accounts with that plan tier); it
\* fails with ErrNotFound when no account matches.
C32_GetAllByStatus ==
    \A s \in {StatusPending, StatusActive, StatusSuspended, StatusDeleted},
       tier \in {NULL, "free", "pro"}, page \in Pages, pageSize \in Pages :
        LET Matches(row) ==
                row.status = s /\ (tier # NULL => row.planTier = tier)
        IN \A r \in GetAll(Filter(s, tier), page, pageSize) :
              /\ r.err = OK => \A i \in DOMAIN r.devs : Matches(r.devs[i])
              /\ (\A id \in DOMAIN developers : ~Matches(developers[id]))
                    => r = [err |-> ErrNotFound]

====
